---- MODULE Spec2Model ----
(***************************************************************************)
(* The SAML response validator of package sso: validator.ValidateSignature *)
(* and validator.ValidateResponse acting on one Auth (a resp), with        *)
(* goxmldsig's ValidationContext.Validate modelled as an oracle over       *)
(* (element, signer) and etree documents modelled as small trees.          *)
(***************************************************************************)
EXTENDS Integers, Sequences, FiniteSets, TLC

\* Bounds of the model.
MaxChildren == 2
MaxTime == 2
MaxKeys == 2
MaxOpts == 2

\* The certificates that sign responses: the identity provider's and another.
Certs == {"idpA", "idpB"}
Times == 0..MaxTime

---------------------------------------------------------------------------
\* Errors (github.com/pkg/errors): an error is the chain of its messages,
\* outermost first; the nil error is the empty chain.
NoErr == <<>>

New(msg) == <<msg>>

\* errors.Wrap returns nil when the wrapped error is nil.
Wrap(err, msg) == IF err = NoErr THEN NoErr ELSE <<msg>> \o err

ErrMissingSignature == New("Missing signature referencing the top-level element")

---------------------------------------------------------------------------
\* Timestamp strings of the Conditions element and time.Parse(time.RFC3339, s).
EmptyStr == [kind |-> "empty", t |-> 0]
GarbageStr == [kind |-> "garbage", t |-> 0]
TimeStr(t) == [kind |-> "rfc3339", t |-> t]
TimeStrings == {EmptyStr, GarbageStr} \cup {TimeStr(t) : t \in Times}

\* A parse that defaults an empty timestamp to the zero time.
TimeParse_DefaultsEmpty(s) ==
    IF s.kind = "garbage"
    THEN [err |-> New("parsing time: cannot parse"), t |-> 0]
    ELSE [err |-> NoErr, t |-> s.t]

TimeParse(s) ==
    IF s.kind = "rfc3339"
    THEN [err |-> NoErr, t |-> s.t]
    ELSE [err |-> New("parsing time: cannot parse"), t |-> 0]

\* The structured Response: Assertion.Conditions and the subject's NameID.
UserIDs == {"", "alice"}
Responses == [notBefore : TimeStrings, notOnOrAfter : TimeStrings, nameID : UserIDs]
ZeroResponse == [notBefore |-> EmptyStr, notOnOrAfter |-> EmptyStr, nameID |-> ""]

---------------------------------------------------------------------------
\* XML elements.  A signature is absent, present but not verifiable
\* (malformed, or digest/signature mismatch), or a well-formed signature
\* made by the key of certificate `by`.
NoSig == [kind |-> "none", by |-> ""]
BadSig == [kind |-> "invalid", by |-> ""]
SignedBy(c) == [kind |-> "signed", by |-> c]
Sigs == {NoSig, BadSig} \cup {SignedBy(c) : c \in Certs}

\* A child of the root: an Assertion (SAML assertion namespace) or another
\* element; `nested` says that it contains a further Assertion element,
\* which carries a well-formed signature by certificate idpA; `validated` marks the copy returned by Validate; `id` is its position in
\* the document as received.
ChildKinds ==
    {[tag |-> "Other", sig |-> NoSig, nested |-> n] : n \in BOOLEAN}
    \cup [tag : {"Assertion"}, sig : Sigs, nested : BOOLEAN]

MkChild(k, i) ==
    [tag |-> k.tag, sig |-> k.sig, nested |-> k.nested, validated |-> FALSE, id |-> i]

ChildSeqs ==
    UNION {{[i \in 1..n |-> MkChild(ks[i], i)] : ks \in [1..n -> ChildKinds]}
           : n \in 0..MaxChildren}

\* The root element of a document: its own signature, its children, and the
\* Conditions/Subject content its root-level Assertion elements carry.
RootElements ==
    [sig : Sigs, children : ChildSeqs, validated : {FALSE}, body : Responses]

---------------------------------------------------------------------------
\* dsig.ValidationContext.Validate as an oracle over (element, signer): it
\* looks for a signature that is a child of el and references el, verifies
\* it against the trust roots rts and returns a transformed copy of el with
\* the enveloped signature removed.
Validate(rts, el) ==
    IF el.sig.kind = "none"
    THEN [err |-> ErrMissingSignature, el |-> el]
    ELSE IF el.sig.kind = "invalid"
    THEN [err |-> New("Signature could not be verified"), el |-> el]
    ELSE IF el.sig.by \notin rts
    THEN [err |-> New("Could not verify certificate against trusted certs"), el |-> el]
    ELSE [err |-> NoErr, el |-> [el EXCEPT !.sig = NoSig, !.validated = TRUE]]

\* etree Element.RemoveChild: removes the token t (the first occurrence).
RECURSIVE RemoveChild(_, _)
RemoveChild(children, t) ==
    IF children = <<>> THEN <<>>
    ELSE IF Head(children) = t THEN Tail(children)
    ELSE <<Head(children)>> \o RemoveChild(Tail(children), t)

\* An AddChild that puts the token in front of the children.
AddChild_Prepends(children, t) == <<t>> \o children

\* etree Element.AddChild: appends the token at the end of the children.
AddChild(children, t) == Append(children, t)

\* A handler that accepts an assertion signed by a certificate outside the
\* trust roots.
validateAssertion_AcceptsUntrusted(rts, unverified, parentIsElt, cur) ==
    IF ~parentIsElt
    THEN [err |-> New("assertion with unexpected parent"), children |-> cur]
    ELSE LET v == Validate(rts \cup {unverified.sig.by}, unverified)
         IN  IF v.err # NoErr
             THEN [err |-> v.err, children |-> cur]
             ELSE [err |-> NoErr,
                   children |-> AddChild(RemoveChild(cur, unverified), v.el)]

\* A handler that drops an assertion failing validation and carries on.
validateAssertion_DropsInvalid(rts, unverified, parentIsElt, cur) ==
    IF ~parentIsElt
    THEN [err |-> New("assertion with unexpected parent"), children |-> cur]
    ELSE LET v == Validate(rts, unverified)
         IN  IF v.err # NoErr
             THEN [err |-> NoErr, children |-> RemoveChild(cur, unverified)]
             ELSE [err |-> NoErr,
                   children |-> AddChild(RemoveChild(cur, unverified), v.el)]

\* A handler without the parent check.
validateAssertion_NoParentCheck(rts, unverified, parentIsElt, cur) ==
    LET v == Validate(rts, unverified)
    IN  IF v.err # NoErr
        THEN [err |-> v.err, children |-> cur]
        ELSE [err |-> NoErr,
              children |-> AddChild(RemoveChild(cur, unverified), v.el)]

\* The closure validateAssertion of validateAssertionSignature, applied to
\* an Assertion element `unverified`; parentIsElt says unverified.Parent()
\* is elt; cur is elt's current list of children.
validateAssertion(rts, unverified, parentIsElt, cur) ==
    IF ~parentIsElt
    THEN [err |-> New("assertion with unexpected parent"), children |-> cur]
    ELSE LET v == Validate(rts, unverified)
         IN  IF v.err # NoErr
             THEN [err |-> v.err, children |-> cur]
             ELSE [err |-> NoErr,
                   children |-> AddChild(RemoveChild(cur, unverified), v.el)]

\* The Assertion element nested inside the child c (its parent is c).
NestedAssertion(c) ==
    [tag |-> "Assertion", sig |-> SignedBy("idpA"), nested |-> FALSE,
     validated |-> FALSE, id |-> 0]

\* etreeutils.NSFindIterate below elt: a depth-first traversal, in document
\* order, of the children elt had when the traversal reached it (a snapshot
\* taken by ChildElements), calling the handler on every element named
\* Assertion in the assertion namespace and stopping at its first error.
RECURSIVE NSFindIterate(_, _, _, _)
NSFindIterate(rts, snapshot, i, cur) ==
    IF i > Len(snapshot)
    THEN [err |-> NoErr, children |-> cur]
    ELSE LET c == snapshot[i]
             h == IF c.tag = "Assertion"
                  THEN validateAssertion(rts, c, TRUE, cur)
                  ELSE [err |-> NoErr, children |-> cur]
         IN  IF h.err # NoErr
             THEN h
             ELSE IF c.nested
             THEN validateAssertion(rts, NestedAssertion(c), FALSE, h.children)
             ELSE NSFindIterate(rts, snapshot, i + 1, h.children)

\* validator.validateAssertionSignature: elt is modified in place.
validateAssertionSignature(rts, elt) ==
    NSFindIterate(rts, elt.children, 1, elt.children)

\* A verifier that falls back to per-assertion validation on any error of
\* the whole-document validation.
validateSignature_FallsBackOnAnyError(rts, elt) ==
    LET whole == Validate(rts, elt)
    IN  IF whole.err = NoErr
        THEN [err |-> NoErr, el |-> <<whole.el>>, isInput |-> FALSE,
              elt |-> elt, fallback |-> FALSE]
        ELSE LET a == validateAssertionSignature(rts, elt)
                 after == [elt EXCEPT !.children = a.children]
             IN  IF a.err # NoErr
                 THEN [err |-> a.err, el |-> <<>>, isInput |-> FALSE,
                       elt |-> after, fallback |-> TRUE]
                 ELSE [err |-> NoErr, el |-> <<after>>, isInput |-> TRUE,
                       elt |-> after, fallback |-> TRUE]

\* validator.validateSignature.  el is the element returned, isInput says it
\* is the very element passed in (elt, still bound to its document) and not
\* a copy; elt is the input element after the call; fallback says that
\* per-assertion validation was attempted.
validateSignature(rts, elt) ==
    LET whole == Validate(rts, elt)
    IN  IF whole.err = NoErr
        THEN [err |-> NoErr, el |-> <<whole.el>>, isInput |-> FALSE,
              elt |-> elt, fallback |-> FALSE]
        ELSE IF whole.err = ErrMissingSignature
        THEN LET a == validateAssertionSignature(rts, elt)
                 after == [elt EXCEPT !.children = a.children]
             IN  IF a.err # NoErr
                 THEN [err |-> a.err, el |-> <<>>, isInput |-> FALSE,
                       elt |-> after, fallback |-> TRUE]
                 ELSE [err |-> NoErr, el |-> <<after>>, isInput |-> TRUE,
                       elt |-> after, fallback |-> TRUE]
        ELSE [err |-> whole.err, el |-> <<>>, isInput |-> FALSE,
              elt |-> elt, fallback |-> FALSE]

---------------------------------------------------------------------------
\* The Auth under validation (a resp): the transport payload, the status
\* it reports and the structured Response it holds (<<>> when it holds
\* none, <<r>> otherwise).
Statuses == {"Unextractable", "Success", "Requester"}
Success == "Success"

\* resp.status(): the status code, or an error when none can be extracted.
status(info) ==
    IF info.status = "Unextractable"
    THEN [err |-> New("malformed or missing auth response"), code |-> "AuthnFailed"]
    ELSE [err |-> NoErr, code |-> info.status]

\* resp.UserID(): the identifier derived from the held Response.
UserID(info) == IF info.held = <<>> THEN "" ELSE info.held[1].nameID

\* resp.rawResponse()
rawResponse(info) == info.raw

\* resp.setResponse(val)
setResponse(info, val) == [info EXCEPT !.held = <<val>>]

\* The transport payload: a string that is valid base64 or not, whose
\* decoded bytes are malformed XML, a well-formed document without a root
\* element, or a document with the root element `root`.
EmptyRoot ==
    [sig |-> NoSig, children |-> <<>>, validated |-> FALSE, body |-> ZeroResponse]

NotBase64 == [b64 |-> FALSE, xml |-> "malformed", root |-> EmptyRoot]
BadXML == [b64 |-> TRUE, xml |-> "malformed", root |-> EmptyRoot]
NoRoot == [b64 |-> TRUE, xml |-> "noroot", root |-> EmptyRoot]
DocPayload(r) == [b64 |-> TRUE, xml |-> "doc", root |-> r]

\* base64.StdEncoding.DecodeString
DecodeString(raw) ==
    IF raw.b64
    THEN [err |-> NoErr, bytes |-> <<[xml |-> raw.xml, root |-> raw.root]>>]
    ELSE [err |-> New("illegal base64 data"), bytes |-> <<>>]

\* etree Document.ReadFromBytes followed by Document.Root(): root is <<>>
\* when the document has no root element.
ReadFromBytes(bytes) ==
    IF bytes[1].xml = "malformed"
    THEN [err |-> New("XML syntax error"), root |-> <<>>]
    ELSE IF bytes[1].xml = "noroot"
    THEN [err |-> NoErr, root |-> <<>>]
    ELSE [err |-> NoErr, root |-> <<bytes[1].root>>]

\* etree Document.SetRoot(e) on a fresh document: an element that is bound
\* to another document is unbound from it first.  docRoot is the root of
\* the other document, isBound says e is that root; the result is the root
\* the other document is left with.
SetRoot(docRoot, isBound) == IF isBound THEN <<>> ELSE docRoot

\* etree Document.WriteToBytes: the serialization of the document's root,
\* empty when the document has none.
WriteToBytes(docRoot) == docRoot

\* encoding/xml Unmarshal into a Response: the Conditions and NameID come
\* from the Assertion children of the root; empty input is an error (EOF).
Unmarshal(buffer) ==
    IF buffer = <<>>
    THEN [err |-> New("EOF"), response |-> ZeroResponse]
    ELSE IF \E i \in 1..Len(buffer[1].children) : buffer[1].children[i].tag = "Assertion"
    THEN [err |-> NoErr, response |-> buffer[1].body]
    ELSE [err |-> NoErr, response |-> ZeroResponse]

---------------------------------------------------------------------------
\* validator.ValidateResponse

\* currentTime.After(onOrAfter)
After(currentTime, onOrAfter) == currentTime > onOrAfter

\* currentTime.Before(notBefore)
Before(currentTime, notBefore) == currentTime < notBefore

\* The error ValidateResponse returns for the held Response `response`, the
\* clock reading currentTime and the Auth's user id.
validateResponse(response, currentTime, userID) ==
    LET onOrAfter == TimeParse(response.notOnOrAfter)
        notBefore == TimeParse(response.notBefore)
    IN  IF onOrAfter.err # NoErr
        THEN Wrap(onOrAfter.err, "missing timestamp from condition")
        ELSE IF notBefore.err # NoErr
        THEN Wrap(notBefore.err, "missing timestamp from condition")
        ELSE IF After(currentTime, onOrAfter.t)
        THEN New("response expired")
        ELSE IF Before(currentTime, notBefore.t)
        THEN New("response too early")
        ELSE IF userID = ""
        THEN New("missing user id")
        ELSE NoErr

---------------------------------------------------------------------------
\* validator.ValidateSignature

\* A ValidateSignature that does not look at the status.
StatusGate_Skipped(info) == NoErr

\* The status check at the head of ValidateSignature.
StatusGate(info) ==
    LET st == status(info)
    IN  IF st.err # NoErr
        THEN New("missing or malformed response")
        ELSE IF st.code # Success
        THEN New("response status " \o st.code)
        ELSE NoErr

\* What a call of ValidateSignature yields: the error and the Auth returned
\* (ret is "nil" or "auth"), the Auth after the call, the steps performed in
\* order, and from the signature step whether per-assertion validation was
\* attempted, the element the verifier returned and the bytes unmarshalled.
Outcome(err, ret, info, trace, fallback, signed, buffer) ==
    [err |-> err, ret |-> ret, info |-> info, trace |-> trace,
     fallback |-> fallback, signed |-> signed, buffer |-> buffer]

\* A ValidateSignature that stores the Response before it has looked at
\* the error of Unmarshal.
validateSignatureCall_StoresBeforeCheck(rts, info) ==
    LET gate == StatusGate(info)
        decoded == DecodeString(rawResponse(info))
        doc == ReadFromBytes(decoded.bytes)
        sv == validateSignature(rts, doc.root[1])
        docRoot == SetRoot(<<sv.elt>>, sv.isInput)
        buffer == WriteToBytes(docRoot)
        um == Unmarshal(buffer)
    IN  IF gate # NoErr
        THEN Outcome(gate, "nil", info, <<"status">>, FALSE, <<>>, <<>>)
        ELSE IF decoded.err # NoErr
        THEN Outcome(Wrap(decoded.err, "based64 decoding response"), "nil", info,
                     <<"status", "decode">>, FALSE, <<>>, <<>>)
        ELSE IF doc.err # NoErr \/ doc.root = <<>>
        THEN Outcome(Wrap(doc.err, "parsing xml response"), "nil", info,
                     <<"status", "decode", "parse">>, FALSE, <<>>, <<>>)
        ELSE IF sv.err # NoErr
        THEN Outcome(Wrap(sv.err, "signing verification failed"), "nil", info,
                     <<"status", "decode", "parse", "verify">>, sv.fallback, <<>>, <<>>)
        ELSE IF um.err # NoErr
        THEN Outcome(Wrap(um.err, "unmarshalling signed doc"), "nil",
                     setResponse(info, um.response),
                     <<"status", "decode", "parse", "verify", "serialize", "unmarshal">>,
                     sv.fallback, sv.el, buffer)
        ELSE Outcome(NoErr, "auth", setResponse(info, um.response),
                     <<"status", "decode", "parse", "verify", "serialize", "unmarshal",
                       "setResponse">>,
                     sv.fallback, sv.el, buffer)

\* ValidateSignature from the return of validateSignature on: sv is what
\* validateSignature returned for the root of the parsed document.
signedResponse(info, sv) ==
    LET \* signedDoc.SetRoot(signed) takes the element out of doc when it
        \* is doc's own root
        docRoot == SetRoot(<<sv.elt>>, sv.isInput)
        buffer == WriteToBytes(docRoot)
        um == Unmarshal(buffer)
    IN  IF sv.err # NoErr
        THEN Outcome(Wrap(sv.err, "signing verification failed"), "nil", info,
                     <<"status", "decode", "parse", "verify">>, sv.fallback, <<>>, <<>>)
        ELSE IF um.err # NoErr
        THEN Outcome(Wrap(um.err, "unmarshalling signed doc"), "nil", info,
                     <<"status", "decode", "parse", "verify", "serialize", "unmarshal">>,
                     sv.fallback, sv.el, buffer)
        ELSE Outcome(NoErr, "auth", setResponse(info, um.response),
                     <<"status", "decode", "parse", "verify", "serialize", "unmarshal",
                       "setResponse">>,
                     sv.fallback, sv.el, buffer)

validateSignatureCall(rts, info) ==
    LET gate == StatusGate(info)
        decoded == DecodeString(rawResponse(info))
        doc == ReadFromBytes(decoded.bytes)
    IN  IF gate # NoErr
        THEN Outcome(gate, "nil", info, <<"status">>, FALSE, <<>>, <<>>)
        ELSE IF decoded.err # NoErr
        THEN Outcome(Wrap(decoded.err, "based64 decoding response"), "nil", info,
                     <<"status", "decode">>, FALSE, <<>>, <<>>)
        ELSE IF doc.err # NoErr \/ doc.root = <<>>
        THEN Outcome(Wrap(doc.err, "parsing xml response"), "nil", info,
                     <<"status", "decode", "parse">>, FALSE, <<>>, <<>>)
        ELSE signedResponse(info, validateSignature(rts, doc.root[1]))

---------------------------------------------------------------------------
\* NewValidator

\* A key descriptor of the metadata: its certificate data is not base64, is
\* base64 of something that is no X.509 certificate, or is certificate c.
NotBase64Key == [b64 |-> FALSE, x509 |-> FALSE, cert |-> ""]
NotX509Key == [b64 |-> TRUE, x509 |-> FALSE, cert |-> ""]
CertKey(c) == [b64 |-> TRUE, x509 |-> TRUE, cert |-> c]
KeyDescriptors == {NotBase64Key, NotX509Key} \cup {CertKey(c) : c \in Certs}

KeySeqs == UNION {[1..n -> KeyDescriptors] : n \in 0..MaxKeys}

\* The metadata text: it unmarshals into an EntityDescriptor or not, and
\* holds the key descriptors `keys` of the IDPSSODescriptor.
Metadatas ==
    {[xml |-> FALSE, keys |-> <<>>]} \cup {[xml |-> TRUE, keys |-> ks] : ks \in KeySeqs}

\* The clocks an option can carry (a nil pointer or a supplied clock) and
\* the clock dsig.NewRealClock returns.
ClockArgs == {"nil", "fake"}
RealClock == "real"

OptSeqs == UNION {[1..n -> ClockArgs] : n \in 0..MaxOpts}

\* A loop that skips a key descriptor whose certificate does not load.
RECURSIVE LoadCerts_SkipsBad(_, _)
LoadCerts_SkipsBad(keys, store) ==
    IF keys = <<>>
    THEN [err |-> NoErr, roots |-> store]
    ELSE IF ~Head(keys).b64 \/ ~Head(keys).x509
    THEN LoadCerts_SkipsBad(Tail(keys), store)
    ELSE LoadCerts_SkipsBad(Tail(keys), Append(store, Head(keys).cert))

\* The loop over the key descriptors: store is idpCertStore.Roots so far.
RECURSIVE LoadCerts(_, _)
LoadCerts(keys, store) ==
    IF keys = <<>>
    THEN [err |-> NoErr, roots |-> store]
    ELSE IF ~Head(keys).b64
    THEN [err |-> Wrap(New("illegal base64 data"), "decoding idp x509 cert"),
          roots |-> store]
    ELSE IF ~Head(keys).x509
    THEN [err |-> Wrap(New("x509: malformed certificate"), "parsing idp x509 cert"),
          roots |-> store]
    ELSE LoadCerts(Tail(keys), Append(store, Head(keys).cert))

\* The options applied in order: each Clock(c) assigns v.clock.
RECURSIVE ApplyOpts(_, _)
ApplyOpts(opts, clock) ==
    IF opts = <<>> THEN clock ELSE ApplyOpts(Tail(opts), Head(opts))

\* A constructor that keeps a nil clock.
DefaultClock_KeepsNil(clock) == clock

\* if v.clock == nil { v.clock = dsig.NewRealClock() }
DefaultClock(clock) == IF clock = "nil" THEN RealClock ELSE clock

\* What NewValidator returns: the error, whether a validator is returned
\* (ret is "nil" or "validator"), and the validator's certificate store,
\* clock and validation context clock; the arguments are kept beside them.
NoValidator(metadata, opts, err) ==
    [metadata |-> metadata, opts |-> opts, err |-> err, ret |-> "nil",
     roots |-> <<>>, clock |-> "nil", ctxClock |-> "nil"]

NewValidator(metadata, opts) ==
    LET ld == LoadCerts(metadata.keys, <<>>)
        clock == DefaultClock(ApplyOpts(opts, "nil"))
    IN  IF ~metadata.xml
        THEN NoValidator(metadata, opts,
                         Wrap(New("XML syntax error"), "unmarshalling metadata"))
        ELSE IF ld.err # NoErr
        THEN NoValidator(metadata, opts, ld.err)
        ELSE [metadata |-> metadata, opts |-> opts, err |-> NoErr, ret |-> "validator",
              roots |-> ld.roots, clock |-> clock, ctxClock |-> clock]

---------------------------------------------------------------------------
\* State: the validator NewValidator returned, the certificates of its
\* trust store, the Auth, whether ValidateSignature has run to its end on
\* the Auth, the record of the last call, and how the payload of the Auth
\* was derived from a payload accepted before ("no" when it was not).
\* threads holds, for each request-handling thread, its own Auth and its
\* position in the call it is making.
VARIABLES v, roots, auth, verified, last, tampered, threads

vars == <<v, roots, auth, verified, last, tampered, threads>>

NoCall ==
    [op |-> "none", now |-> 0, panic |-> FALSE, heldBefore |-> <<>>,
     err |-> NoErr, ret |-> "nil", trace |-> <<>>,
     fallback |-> FALSE, signed |-> <<>>, buffer |-> <<>>]

\* The request-handling threads, and the calls each of them makes at most.
Threads == {1, 2}
MaxCalls == 2

\* What a call sees of the validator: the trust roots of its context, its
\* clock and the metadata it was built from.
View(val, rts) == [roots |-> rts, clock |-> val.clock, metadata |-> val.metadata]

NoVerdict ==
    [err |-> NoErr, el |-> <<>>, isInput |-> FALSE, elt |-> EmptyRoot, fallback |-> FALSE]

NoOut == [err |-> NoErr, ret |-> "nil", panic |-> FALSE]

\* A thread between calls, holding the Auth info.
IdleThread(info, val, rts) ==
    [pc |-> "idle", op |-> "none", info |-> info, info0 |-> info,
     validator |-> View(val, rts), elt |-> EmptyRoot, snapshot |-> <<>>, i |-> 0,
     sv |-> NoVerdict, now |-> 0, out |-> NoOut, calls |-> 0, overlapped |-> FALSE]

\* Documents as received carry Conditions whose window is the whole of Times.
DocBodies ==
    {r \in Responses : r.notBefore = TimeStr(0) /\ r.notOnOrAfter = TimeStr(MaxTime)}

DocRoots == {r \in RootElements : r.body \in DocBodies}

Payloads == {NotBase64, BadXML, NoRoot} \cup {DocPayload(r) : r \in DocRoots}

SmallPayloads == {NotBase64, BadXML, NoRoot}

Helds == {<<>>} \cup {<<r>> : r \in Responses}

Range(s) == {s[i] : i \in 1..Len(s)}

\* Metadata that loads: one for each set of certificates.
PlainMetadatas ==
    {[xml |-> TRUE, keys |-> ks] :
        ks \in {<<>>, <<CertKey("idpA")>>, <<CertKey("idpB")>>,
                <<CertKey("idpA"), CertKey("idpB")>>}}

\* The Auth beside which every metadata and option list is tried.
PlainAuth == [raw |-> NotBase64, status |-> Success, held |-> <<>>]

Init ==
    /\ \/ /\ v \in {NewValidator(md, <<>>) : md \in PlainMetadatas}
          /\ \/ auth \in [raw : Payloads, status : Statuses, held : {<<>>}]
             \/ auth \in [raw : SmallPayloads, status : Statuses, held : Helds]
       \/ /\ v \in {NewValidator(md, opts) : md \in Metadatas, opts \in OptSeqs}
          /\ auth = PlainAuth
    /\ roots = Range(v.roots)
    /\ verified = FALSE
    /\ last = NoCall
    /\ tampered = "no"
    /\ threads = [t \in Threads |-> IdleThread(PlainAuth, v, roots)]

ValidateSignature ==
    LET r == validateSignatureCall(roots, auth)
    IN  /\ v.ret = "validator"
        /\ auth' = r.info
        /\ verified' = (verified \/ r.ret = "auth")
        /\ last' = [op |-> "ValidateSignature", now |-> 0, panic |-> FALSE,
                    heldBefore |-> auth.held,
                    err |-> r.err, ret |-> r.ret, trace |-> r.trace,
                    fallback |-> r.fallback, signed |-> r.signed, buffer |-> r.buffer]
        /\ UNCHANGED <<v, roots, tampered, threads>>

\* info.response is a nil pointer when the Auth holds no Response: the field
\* access panics.
ValidateResponse ==
    \E currentTime \in Times :
        /\ v.ret = "validator"
        /\ last' = [NoCall EXCEPT
                      !.op = "ValidateResponse",
                      !.now = currentTime,
                      !.heldBefore = auth.held,
                      !.panic = (auth.held = <<>>),
                      !.err = IF auth.held = <<>> THEN NoErr
                              ELSE validateResponse(auth.held[1], currentTime, UserID(auth))]
        /\ UNCHANGED <<v, roots, auth, verified, tampered, threads>>

\* What a change of one byte inside the signed root element makes of the
\* payload: the content no longer matches the digest ("content", the
\* Conditions and NameID read b), the bytes are no longer well-formed XML
\* ("syntax"), or the Signature no longer references the root and Validate
\* finds none ("reference").
TamperKinds == {"content", "syntax", "reference"}

TamperedPayload(raw, kind, b) ==
    IF kind = "syntax" THEN BadXML
    ELSE IF kind = "reference" THEN DocPayload([raw.root EXCEPT !.sig = NoSig])
    ELSE DocPayload([raw.root EXCEPT !.sig = BadSig, !.body = b])

\* A response ValidateSignature has accepted is changed in one byte inside
\* its signed element and presented again, as a new Auth.
Tamper ==
    \E kind \in TamperKinds, b \in DocBodies :
        /\ tampered = "no"
        /\ last.op = "ValidateSignature"
        /\ last.ret = "auth"
        /\ auth' = [raw |-> TamperedPayload(auth.raw, kind, b),
                    status |-> auth.status, held |-> <<>>]
        /\ verified' = FALSE
        /\ last' = [NoCall EXCEPT !.op = "Tamper"]
        /\ tampered' = kind
        /\ UNCHANGED <<v, roots, threads>>

Next == ValidateSignature \/ ValidateResponse \/ Tamper

Spec == Init /\ [][Next]_vars

\* The Auth holds no Response until ValidateSignature stores one.
InitFresh == Init /\ auth.held = <<>>

SpecFresh == InitFresh /\ [][Next]_vars

---------------------------------------------------------------------------
\* Several request-handling threads, each validating its own Auth against
\* the one validator.  A call is split at the points where it reads the
\* validator: v.context.Validate on the root, v.context.Validate on each
\* assertion, v.clock.Now().

\* The trust roots of v.context after Validate has verified el against
\* them, with a context that remembers the certificate of el's signer.
TrustRootsAfterValidate_CachesSigner(rts, el) ==
    IF el.sig.kind = "signed" THEN rts \cup {el.sig.by} ELSE rts

\* The trust roots of v.context after v.context.Validate(el): Validate reads
\* the certificate store and writes nothing.
TrustRootsAfterValidate(rts, el) == rts

\* The documents and Auths the threads are given.
ConcChildKinds ==
    {[tag |-> "Assertion", sig |-> SignedBy(c), nested |-> FALSE] : c \in Certs}

ConcChildSeqs ==
    UNION {{[i \in 1..n |-> MkChild(ks[i], i)] : ks \in [1..n -> ConcChildKinds]}
           : n \in 0..MaxChildren}

ConcBody ==
    [notBefore |-> TimeStr(0), notOnOrAfter |-> TimeStr(MaxTime), nameID |-> "alice"]

ConcPayloads ==
    {BadXML} \cup
    {DocPayload([sig |-> sg, children |-> cs, validated |-> FALSE, body |-> ConcBody]) :
        sg \in {NoSig, SignedBy("idpA")}, cs \in ConcChildSeqs}

ConcAuths == [raw : ConcPayloads, status : {Success}, held : {<<>>}]

\* The Auths of the second thread: a document signed as a whole, and one
\* whose assertions are signed one by one.
FewAuths ==
    {[raw |-> DocPayload([sig |-> SignedBy("idpA"), children |-> <<>>,
                          validated |-> FALSE, body |-> ConcBody]),
      status |-> Success, held |-> <<ConcBody>>],
     [raw |-> DocPayload([sig |-> NoSig,
                          children |-> <<MkChild([tag |-> "Assertion",
                                                  sig |-> SignedBy("idpB"),
                                                  nested |-> FALSE], 1)>>,
                          validated |-> FALSE, body |-> ConcBody]),
      status |-> Success, held |-> <<>>]}

InitConc ==
    /\ v \in {NewValidator(md, <<>>) : md \in PlainMetadatas}
    /\ "idpA" \in Range(v.roots)
    /\ roots = Range(v.roots)
    /\ auth = PlainAuth
    /\ verified = FALSE
    /\ last = NoCall
    /\ tampered = "no"
    /\ \E a1 \in ConcAuths, a2 \in FewAuths :
           threads = [t \in Threads |->
                         IdleThread(IF t = 1 THEN a1 ELSE a2, v, roots)]

Busy(t) == threads[t].pc \notin {"idle", "done"}

\* Thread t moves to the record th; the move overlaps a call of another
\* thread when that thread is inside one.
Move(t, th) ==
    threads' = [threads EXCEPT
                  ![t] = [th EXCEPT !.overlapped =
                             th.overlapped \/ \E u \in Threads \ {t} : Busy(u)]]

\* The record of thread t as it enters a call of op.
Enter(t, op) ==
    [threads[t] EXCEPT !.op = op, !.info0 = threads[t].info,
                       !.validator = View(v, roots), !.out = NoOut,
                       !.calls = threads[t].calls + 1, !.overlapped = FALSE]

\* ValidateSignature up to the parsed document: status, decoding and
\* parsing work on the thread's own Auth.
T_ValidateSignature(t) ==
    LET th == Enter(t, "ValidateSignature")
        info == threads[t].info
        decoded == DecodeString(rawResponse(info))
        doc == ReadFromBytes(decoded.bytes)
        early == validateSignatureCall({}, info)
    IN  /\ v.ret = "validator"
        /\ threads[t].pc \in {"idle", "done"}
        /\ threads[t].calls < MaxCalls
        /\ IF StatusGate(info) # NoErr \/ decoded.err # NoErr
              \/ doc.err # NoErr \/ doc.root = <<>>
           THEN Move(t, [th EXCEPT !.pc = "done",
                                   !.out = [err |-> early.err, ret |-> early.ret,
                                            panic |-> FALSE]])
           ELSE Move(t, [th EXCEPT !.pc = "root", !.elt = doc.root[1]])
        /\ UNCHANGED <<v, roots, auth, verified, last, tampered>>

\* validateSignature: v.context.Validate(elt) on the root.
T_ValidateRoot(t) ==
    LET th == threads[t]
        whole == Validate(roots, th.elt)
    IN  /\ th.pc = "root"
        /\ roots' = TrustRootsAfterValidate(roots, th.elt)
        /\ IF whole.err = NoErr
           THEN Move(t, [th EXCEPT !.pc = "finish",
                                   !.sv = [err |-> NoErr, el |-> <<whole.el>>,
                                           isInput |-> FALSE, elt |-> th.elt,
                                           fallback |-> FALSE]])
           ELSE IF whole.err # ErrMissingSignature
           THEN Move(t, [th EXCEPT !.pc = "finish",
                                   !.sv = [err |-> whole.err, el |-> <<>>,
                                           isInput |-> FALSE, elt |-> th.elt,
                                           fallback |-> FALSE]])
           ELSE IF th.elt.children = <<>>
           THEN Move(t, [th EXCEPT !.pc = "finish",
                                   !.sv = [err |-> NoErr, el |-> <<th.elt>>,
                                           isInput |-> TRUE, elt |-> th.elt,
                                           fallback |-> TRUE]])
           ELSE Move(t, [th EXCEPT !.pc = "assertions",
                                   !.snapshot = th.elt.children, !.i = 1])
        /\ UNCHANGED <<v, auth, verified, last, tampered>>

\* validateAssertionSignature: the traversal reaches the next child of the
\* root and, on an assertion, calls v.context.Validate(unverified).
T_ValidateAssertion(t) ==
    LET th == threads[t]
        c == th.snapshot[th.i]
        h == NSFindIterate(roots, <<c>>, 1, th.elt.children)
        after == [th.elt EXCEPT !.children = h.children]
    IN  /\ th.pc = "assertions"
        /\ roots' = IF c.tag = "Assertion"
                    THEN TrustRootsAfterValidate(roots, c) ELSE roots
        /\ IF h.err # NoErr
           THEN Move(t, [th EXCEPT !.pc = "finish", !.elt = after,
                                   !.sv = [err |-> h.err, el |-> <<>>,
                                           isInput |-> FALSE, elt |-> after,
                                           fallback |-> TRUE]])
           ELSE IF th.i = Len(th.snapshot)
           THEN Move(t, [th EXCEPT !.pc = "finish", !.elt = after,
                                   !.sv = [err |-> NoErr, el |-> <<after>>,
                                           isInput |-> TRUE, elt |-> after,
                                           fallback |-> TRUE]])
           ELSE Move(t, [th EXCEPT !.elt = after, !.i = th.i + 1])
        /\ UNCHANGED <<v, auth, verified, last, tampered>>

\* ValidateSignature from the return of validateSignature on: it works on
\* the thread's own documents and Auth.
T_StoreResponse(t) ==
    LET th == threads[t]
        r == signedResponse(th.info, th.sv)
    IN  /\ th.pc = "finish"
        /\ Move(t, [th EXCEPT !.pc = "done", !.info = r.info,
                              !.out = [err |-> r.err, ret |-> r.ret, panic |-> FALSE]])
        /\ UNCHANGED <<v, roots, auth, verified, last, tampered>>

\* ValidateResponse up to the clock: the timestamps of the thread's own
\* Auth are parsed (a nil Response panics).
T_ValidateResponse(t) ==
    LET th == Enter(t, "ValidateResponse")
        held == threads[t].info.held
    IN  /\ v.ret = "validator"
        /\ threads[t].pc \in {"idle", "done"}
        /\ threads[t].calls < MaxCalls
        /\ IF held = <<>>
           THEN Move(t, [th EXCEPT !.pc = "done", !.out = [NoOut EXCEPT !.panic = TRUE]])
           ELSE IF TimeParse(held[1].notOnOrAfter).err # NoErr
                   \/ TimeParse(held[1].notBefore).err # NoErr
           THEN Move(t, [th EXCEPT !.pc = "done",
                                   !.out = [NoOut EXCEPT !.err =
                                       validateResponse(held[1], 0, UserID(threads[t].info))]])
           ELSE Move(t, [th EXCEPT !.pc = "clock"])
        /\ UNCHANGED <<v, roots, auth, verified, last, tampered>>

\* ValidateResponse from v.clock.Now() on.
T_ReadClock(t) ==
    \E currentTime \in Times :
        LET th == threads[t]
        IN  /\ th.pc = "clock"
            /\ v.clock # "nil"
            /\ Move(t, [th EXCEPT !.pc = "done", !.now = currentTime,
                                  !.out = [NoOut EXCEPT !.err =
                                      validateResponse(th.info.held[1], currentTime,
                                                       UserID(th.info))]])
            /\ UNCHANGED <<v, roots, auth, verified, last, tampered>>

NextConc ==
    \E t \in Threads :
        \/ T_ValidateSignature(t)
        \/ T_ValidateRoot(t)
        \/ T_ValidateAssertion(t)
        \/ T_StoreResponse(t)
        \/ T_ValidateResponse(t)
        \/ T_ReadClock(t)

SpecConc == InitConc /\ [][NextConc]_vars

---------------------------------------------------------------------------
\* What the properties below speak about.

\* The last call was ValidateResponse on an Auth holding a Response.
CalledValidateResponse == last.op = "ValidateResponse" /\ ~last.panic

CalledValidateSignature == last.op = "ValidateSignature"

\* The Response held when the last call began.
HeldBefore == last.heldBefore[1]

\* The last call of ValidateSignature got as far as the Signature Verifier.
ReachedVerifier == CalledValidateSignature /\ Len(last.trace) >= 4

\* The root element of the document received.
DocRoot == auth.raw.root

\* The element's signature verifies against the trust roots.
SignedByTrusted(el) == el.sig.kind = "signed" /\ el.sig.by \in roots

\* The root-level Assertion elements of the document received.
RootAssertions ==
    {i \in 1..Len(DocRoot.children) : DocRoot.children[i].tag = "Assertion"}

\* The children that contain an Assertion whose parent is not the root.
NestedAt == {i \in 1..Len(DocRoot.children) : DocRoot.children[i].nested}

\* The call returned an error and no Auth, and left the held Response alone.
Rejected == last.err # NoErr /\ last.ret = "nil" /\ auth.held = last.heldBefore

MissingTimestampErr(e) == e # NoErr /\ Head(e) = "missing timestamp from condition"

UnexpectedParentErr ==
    Wrap(New("assertion with unexpected parent"), "signing verification failed")

---------------------------------------------------------------------------
\* C1: with parseable NotBefore = T0 and NotOnOrAfter = T1 (T0 < T1) and a non-empty
\* user id, ValidateResponse returns no error if and only if T0 <= now < T1;
\* at now = T1 it fails with 'response expired' and at any now < T0 with
\* 'response too early'.
C1_HalfOpenWindow ==
    (/\ CalledValidateResponse
     /\ HeldBefore.notBefore.kind = "rfc3339"
     /\ HeldBefore.notOnOrAfter.kind = "rfc3339"
     /\ HeldBefore.notBefore.t < HeldBefore.notOnOrAfter.t
     /\ HeldBefore.nameID # "")
    => LET T0 == HeldBefore.notBefore.t
           T1 == HeldBefore.notOnOrAfter.t
       IN  /\ (last.err = NoErr) <=> (T0 <= last.now /\ last.now < T1)
           /\ last.now = T1 => last.err = New("response expired")
           /\ last.now < T0 => last.err = New("response too early")

\* C2: per-assertion validation is attempted if and only if whole-document
\* validation of the root fails with the 'missing signature' error; with a
\* root signature that is present but does not verify, the verifier rejects
\* without validating any assertion, whatever assertions the document holds.
C2_FallbackGating ==
    ReachedVerifier =>
        /\ last.fallback <=> (DocRoot.sig.kind = "none")
        /\ (DocRoot.sig.kind # "none" /\ ~SignedByTrusted(DocRoot)) =>
               /\ Rejected
               /\ last.signed = <<>>
               /\ last.err = Wrap(Validate(roots, DocRoot).err, "signing verification failed")

\* A root whose signature does not verify, over a validly signed assertion,
\* has been rejected.
C2_Witness ==
    /\ ReachedVerifier
    /\ DocRoot.sig.kind # "none"
    /\ ~SignedByTrusted(DocRoot)
    /\ \E i \in RootAssertions : SignedByTrusted(DocRoot.children[i])
    /\ last.err # NoErr

\* C3: ValidateSignature returns a non-nil error whenever the decoded
\* payload fails to parse as XML or parses to a document without a root.
C3_ParseErrorNonNil ==
    (/\ CalledValidateSignature
     /\ auth.status = Success
     /\ auth.raw.b64
     /\ auth.raw.xml \in {"malformed", "noroot"})
    => last.err # NoErr

\* The elements a serialization holds: the root, its Signature if it has
\* one, and its children.
ElementsOf(bytes) ==
    IF bytes = <<>> THEN {}
    ELSE {[tag |-> "Response", id |-> 0]}
         \cup (IF bytes[1].sig.kind = "none" THEN {} ELSE {[tag |-> "Signature", id |-> 0]})
         \cup {[tag |-> bytes[1].children[i].tag, id |-> bytes[1].children[i].id]
               : i \in 1..Len(bytes[1].children)}

\* C4: the Response stored on the Auth is parsed from the serialization of
\* the element the Signature Verifier returned: every element in the bytes
\* parsed is part of that element.
C4_ResponseFromVerifiedElement ==
    (CalledValidateSignature /\ last.ret = "auth")
    => /\ last.buffer = WriteToBytes(last.signed)
       /\ ElementsOf(last.buffer) \subseteq ElementsOf(last.signed)

\* C5: if the signer of the root signature, or with an unsigned root the
\* signer of any root-level assertion, is not in the trust roots,
\* ValidateSignature returns an error, the verifier returns no element and
\* the Auth's Response is not set.
C5_TrustBoundary ==
    (/\ CalledValidateSignature
     /\ auth.raw.xml = "doc"
     /\ \/ DocRoot.sig.kind = "signed" /\ DocRoot.sig.by \notin roots
        \/ /\ DocRoot.sig.kind = "none"
           /\ \E i \in RootAssertions :
                  /\ DocRoot.children[i].sig.kind = "signed"
                  /\ DocRoot.children[i].sig.by \notin roots)
    => Rejected /\ last.signed = <<>>

\* An unsigned root with an assertion signed by an untrusted certificate and
\* a sibling signed by a trusted one has been rejected by the verifier.
C5_Witness ==
    /\ ReachedVerifier
    /\ DocRoot.sig.kind = "none"
    /\ \E i \in RootAssertions :
           /\ DocRoot.children[i].sig.kind = "signed"
           /\ DocRoot.children[i].sig.by \notin roots
    /\ \E i \in RootAssertions : SignedByTrusted(DocRoot.children[i])
    /\ Rejected

\* The first child that contains a nested Assertion, and the first
\* root-level Assertion whose own signature does not verify.
Min(S) == CHOOSE x \in S : \A y \in S : x <= y

FailingAssertions == {i \in RootAssertions : ~SignedByTrusted(DocRoot.children[i])}

InFallbackMode == ReachedVerifier /\ DocRoot.sig.kind = "none"

\* C6 as stated: in fallback mode an Assertion whose direct parent is not
\* the root makes ValidateSignature fail with the unexpected-parent error.
C6_UnexpectedParentError ==
    (InFallbackMode /\ NestedAt # {})
    => Rejected /\ last.err = UnexpectedParentErr

\* C6 amended: in fallback mode an Assertion whose direct parent is not the
\* root makes the verifier and ValidateSignature fail, even if it would
\* validate by itself; the error is the unexpected-parent error unless a
\* root-level assertion that comes no later in document order fails its own
\* validation, and then it is that assertion's validation error.
C6_NestedAssertionRejected ==
    (InFallbackMode /\ NestedAt # {})
    => /\ Rejected
       /\ last.signed = <<>>
       /\ LET j == Min(NestedAt)
              before == {i \in FailingAssertions : i <= j}
          IN  IF before = {}
              THEN last.err = UnexpectedParentErr
              ELSE last.err = Wrap(Validate(roots, DocRoot.children[Min(before)]).err,
                                   "signing verification failed")

\* A nested assertion signed by a trusted certificate, below an unsigned
\* root, has been rejected for its parent.
C6_Witness ==
    /\ InFallbackMode
    /\ NestedAt # {}
    /\ "idpA" \in roots
    /\ last.err = UnexpectedParentErr

C8_StatusGating ==
    (CalledValidateSignature /\ auth.status # Success)
    => /\ last.trace = <<"status">>
       /\ Rejected
       /\ last.err = IF auth.status = "Unextractable"
                     THEN New("missing or malformed response")
                     ELSE New("response status " \o auth.status)

\* A non-Success status on a payload that would verify has been rejected.
C8_Witness ==
    /\ CalledValidateSignature
    /\ auth.status = "Requester"
    /\ auth.raw.xml = "doc"
    /\ SignedByTrusted(DocRoot)
    /\ last.trace = <<"status">>

\* C9: ValidateResponse returns no error only if ValidateSignature has
\* succeeded on the Auth before, the status was Success, the time window
\* holds and the user id is non-empty.
C9_AcceptedOnlyWhenAllCheckOut ==
    (CalledValidateResponse /\ last.err = NoErr)
    => /\ verified
       /\ auth.status = Success
       /\ HeldBefore.notBefore.kind = "rfc3339"
       /\ HeldBefore.notOnOrAfter.kind = "rfc3339"
       /\ HeldBefore.notBefore.t <= last.now
       /\ last.now < HeldBefore.notOnOrAfter.t
       /\ HeldBefore.nameID # ""

\* C10: if NotBefore or NotOnOrAfter of the held Response is empty or not
\* parseable, ValidateResponse returns the missing-timestamp error for every
\* clock value and every user id.
C10_TimestampsNeverDefaulted ==
    (/\ CalledValidateResponse
     /\ \/ HeldBefore.notBefore.kind # "rfc3339"
        \/ HeldBefore.notOnOrAfter.kind # "rfc3339")
    => MissingTimestampErr(last.err)

\* An empty NotBefore beside a NotOnOrAfter still ahead, with a user id,
\* has been refused for its timestamp.
C10_Witness ==
    /\ CalledValidateResponse
    /\ HeldBefore.notBefore.kind = "empty"
    /\ HeldBefore.notOnOrAfter.kind = "rfc3339"
    /\ last.now < HeldBefore.notOnOrAfter.t
    /\ HeldBefore.nameID # ""
    /\ MissingTimestampErr(last.err)

---------------------------------------------------------------------------
\* The key descriptors whose certificate loads.
GoodKey(k) == k.b64 /\ k.x509

\* C11: NewValidator returns an error and no validator if the metadata
\* fails to parse or any key descriptor's certificate fails to decode or to
\* parse; when it succeeds the trust roots are the certificates of the key
\* descriptors, one for each, in descriptor order.
C11_TrustStoreFailsClosed ==
    LET keys == v.metadata.keys
        loads == v.metadata.xml /\ \A i \in 1..Len(keys) : GoodKey(keys[i])
    IN  /\ (v.ret = "validator") <=> loads
        /\ (v.ret = "nil") <=> (v.err # NoErr)
        /\ v.ret = "validator" =>
               /\ Len(v.roots) = Len(keys)
               /\ \A i \in 1..Len(keys) : v.roots[i] = keys[i].cert
               /\ roots = Range(v.roots)

\* Metadata with a certificate that loads followed by one that does not has
\* given no validator.
C11_Witness ==
    /\ v.metadata.xml
    /\ Len(v.metadata.keys) = 2
    /\ GoodKey(v.metadata.keys[1])
    /\ ~GoodKey(v.metadata.keys[2])
    /\ v.ret = "nil"
    /\ v.err # NoErr

\* C19: after NewValidator succeeds the validator's clock is not nil and the
\* validation context uses the same clock: the clock of the Clock option
\* when that is not nil, otherwise the real-time clock.
C19_ClockNeverNil ==
    v.ret = "validator" =>
        /\ v.clock # "nil"
        /\ v.ctxClock = v.clock
        /\ v.clock = IF v.opts # <<>> /\ v.opts[Len(v.opts)] # "nil"
                     THEN v.opts[Len(v.opts)]
                     ELSE RealClock

\* A validator built with Clock(nil) has the real-time clock.
C19_Witness ==
    /\ v.ret = "validator"
    /\ v.opts = <<"nil">>
    /\ v.clock = RealClock
    /\ v.ctxClock = RealClock

---------------------------------------------------------------------------
\* Every root-level Assertion of the document verifies, there is at least
\* one, and no Assertion lies deeper.
AssertionsAllTrusted ==
    /\ RootAssertions # {}
    /\ FailingAssertions = {}
    /\ NestedAt = {}

\* C12: for a response with status Success, signed by a trusted key over the
\* whole document or over the root-level Assertion only, with a window
\* covering now and a non-empty user id, ValidateSignature returns the Auth
\* with its Response populated and ValidateResponse then returns no error.
C12_AcceptPath ==
    /\ (/\ CalledValidateSignature
        /\ auth.status = Success
        /\ auth.raw.xml = "doc"
        /\ DocRoot.body.nameID # ""
        /\ RootAssertions # {}
        /\ \/ SignedByTrusted(DocRoot)
           \/ DocRoot.sig.kind = "none" /\ AssertionsAllTrusted)
       => /\ last.err = NoErr
          /\ last.ret = "auth"
          /\ auth.held = <<DocRoot.body>>
    /\ (/\ CalledValidateResponse
        /\ verified
        /\ HeldBefore = DocRoot.body
        /\ HeldBefore.nameID # ""
        /\ HeldBefore.notBefore.t <= last.now
        /\ last.now < HeldBefore.notOnOrAfter.t)
       => last.err = NoErr

\* The children of the root received and of the root the verifier returned.
Received == DocRoot.children
Returned == last.signed[1].children

VerifiedInFallback == InFallbackMode /\ last.signed # <<>>

IsAssertion(c) == c.tag = "Assertion"
IsOther(c) == c.tag # "Assertion"

\* The validated copy Validate returns for the child c.
ValidatedCopy(c) == [c EXCEPT !.sig = NoSig, !.validated = TRUE]

\* C15 as stated: when every assertion validates in fallback mode, the root
\* returned has the same children in the same order, each assertion replaced
\* at its position by its validated copy.
C15_InPlaceSwap ==
    VerifiedInFallback =>
        /\ Len(Returned) = Len(Received)
        /\ \A i \in 1..Len(Received) :
               Returned[i] = IF IsAssertion(Received[i])
                             THEN ValidatedCopy(Received[i])
                             ELSE Received[i]

\* C15 amended: the root returned has the same number of children: the
\* non-assertion children, untouched and in their order, followed by the
\* validated copies of the assertions in the order of the originals.
C15_ValidatedCopiesAppended ==
    VerifiedInFallback =>
        LET others == SelectSeq(Received, IsOther)
            asserts == SelectSeq(Received, IsAssertion)
        IN  /\ Len(Returned) = Len(Received)
            /\ Returned = others \o [i \in 1..Len(asserts) |-> ValidatedCopy(asserts[i])]

\* An assertion in front of another element has been validated and put
\* behind it.
C15_Witness ==
    /\ VerifiedInFallback
    /\ \E i, j \in 1..Len(Received) :
           i < j /\ IsAssertion(Received[i]) /\ IsOther(Received[j])
    /\ Returned[Len(Returned)].validated

\* C16: whenever ValidateSignature returns no error a signature was
\* validated against the trust store: the root's, or with an unsigned root
\* that of every root-level assertion, of which there is at least one; an
\* unsigned root without any Assertion is rejected.
C16_SuccessMeansSignatureValidated ==
    /\ (CalledValidateSignature /\ last.err = NoErr)
       => /\ auth.raw.xml = "doc"
          /\ \/ SignedByTrusted(DocRoot)
             \/ DocRoot.sig.kind = "none" /\ AssertionsAllTrusted
    /\ (/\ ReachedVerifier
        /\ DocRoot.sig.kind = "none"
        /\ RootAssertions = {}
        /\ NestedAt = {})
       => Rejected

\* C17: ValidateSignature replaces the held Response only as its last step
\* on the success path; on every error return the Auth returned is nil and
\* the held Response is as it was; ValidateResponse never changes it.
C17_ResponseReplacedLast ==
    /\ CalledValidateSignature =>
           /\ last.err # NoErr => last.ret = "nil"
           /\ last.ret = "nil" => auth.held = last.heldBefore
           /\ last.ret = "auth" =>
                  /\ last.trace[Len(last.trace)] = "setResponse"
                  /\ auth.held = <<Unmarshal(last.buffer).response>>
           /\ \A i \in 1..(Len(last.trace) - 1) : last.trace[i] # "setResponse"
    /\ last.op = "ValidateResponse" => auth.held = last.heldBefore

\* A call that failed at the re-parse of the response has left the held
\* Response alone.
C17_Witness ==
    /\ CalledValidateSignature
    /\ Len(last.trace) = 6
    /\ last.err # NoErr
    /\ last.ret = "nil"
    /\ auth.held = last.heldBefore

\* C18: ValidateResponse reports the first failure in the order NotOnOrAfter
\* parse, NotBefore parse, expiry, too early, user id: a temporally valid
\* response with an empty user id fails with the missing-user-id error, and
\* that error is returned only when both timestamps parse and now lies
\* inside the window.
C18_CheckOrder ==
    CalledValidateResponse =>
        LET parses == /\ HeldBefore.notBefore.kind = "rfc3339"
                      /\ HeldBefore.notOnOrAfter.kind = "rfc3339"
            inside == /\ HeldBefore.notBefore.t <= last.now
                      /\ last.now < HeldBefore.notOnOrAfter.t
        IN  /\ (parses /\ inside /\ HeldBefore.nameID = "")
               => last.err = New("missing user id")
            /\ last.err = New("missing user id") => (parses /\ inside)

---------------------------------------------------------------------------
\* ValidateSignature has been called on a tampered copy of an accepted
\* response.
CalledOnTampered == CalledValidateSignature /\ tampered # "no"

---------------------------------------------------------------------------
\* What the call thread t has finished returns when it runs alone: the
\* whole call at once, on the Auth the thread entered it with, against the
\* validator as NewValidator returned it.
Alone(t) ==
    LET th == threads[t]
        r == validateSignatureCall(Range(v.roots), th.info0)
    IN  IF th.op = "ValidateSignature"
        THEN [out |-> [err |-> r.err, ret |-> r.ret, panic |-> FALSE], info |-> r.info]
        ELSE [out |-> [NoOut EXCEPT
                         !.panic = (th.info0.held = <<>>),
                         !.err = IF th.info0.held = <<>> THEN NoErr
                                 ELSE validateResponse(th.info0.held[1], th.now,
                                                       UserID(th.info0))],
              info |-> th.info0]

\* C13: ValidateSignature and ValidateResponse never modify the trust
\* store, the clock or the metadata of the validator, so in every
\* interleaving of calls from several threads on distinct Auths each call
\* returns what it returns when run alone.
C13_NoLockingNeeded ==
    /\ View(v, roots) = View(NewValidator(v.metadata, v.opts), Range(v.roots))
    /\ \A t \in Threads :
           /\ threads[t].pc # "idle" => threads[t].validator = View(v, roots)
           /\ threads[t].pc = "done" =>
                  /\ threads[t].out = Alone(t).out
                  /\ threads[t].info = Alone(t).info

\* Two calls of ValidateSignature have overlapped: one accepted a document
\* signed as a whole, the other went through its assertions and refused one
\* signed by a certificate outside the trust store.
C13_Witness ==
    /\ threads[1].pc = "done" /\ threads[2].pc = "done"
    /\ threads[1].op = "ValidateSignature" /\ threads[2].op = "ValidateSignature"
    /\ threads[1].overlapped /\ threads[2].overlapped
    /\ threads[1].out.ret = "auth"
    /\ threads[2].sv.fallback /\ threads[2].out.err # NoErr
    /\ threads[2].i = 1
====
